---- MODULE Spec2Model ----
(***************************************************************************)
(* Document ingestion pipeline of src/src/document/document_processor.py:  *)
(* DocumentProcessor._validate_file, the four extractors, the              *)
(* summarization adapter _clean_and_summarize_text, the orchestrator       *)
(* process_document_async, the two batch entry points and the caller      *)
(* boundary process_single_file_async / _read_bytes.                       *)
(*                                                                         *)
(* Spec      one call of process_document_async, or one batch call.        *)
(* SpecFile  process_single_file_async on a cl.File, then the pipeline.    *)
(* SpecTxt   process_document_async on plain-text files of richer bytes.   *)
(* SpecTwice process_document_async called twice on the same arguments.    *)
(*                                                                         *)
(* Strings are sequences of one-character strings; a fixed literal of the  *)
(* code that is never cut (a message, a header) is one token.              *)
(***************************************************************************)
EXTENDS Integers, Sequences, FiniteSets, TLC

\* ------------------------------------------------------------------ bounds

\* ProcessingConfig.max_file_size, scaled down from 100 MB.
MaxFileSize == 2

\* ProcessingConfig.text_extract_limit, scaled down from 10000.
TextExtractLimit == 2

\* Longest paged document the PDF library hands back.
MaxPages == 2

\* Longest paragraph list the DOCX library hands back.
MaxParagraphs == 2

\* Largest batch mapping.
MaxBatch == 3

\* ------------------------------------------------------- sequence helpers

Min(a, b) == IF a < b THEN a ELSE b

\* Mutant of Prefix: the slice runs one character past the bound.
PrefixOneMore(s, n) == SubSeq(s, 1, IF Len(s) < n + 1 THEN Len(s) ELSE n + 1)

\* Python s[:n] for n >= 0.
Prefix(s, n) == SubSeq(s, 1, Min(n, Len(s)))

\* Python s[i:] with i a 1-based start position.
From(s, i) == SubSeq(s, i, Len(s))

\* Python s.rfind(ch) as a 1-based position, 0 when absent.
RFind(s, ch) ==
    LET hits == {i \in 1..Len(s) : s[i] = ch}
    IN  IF hits = {} THEN 0 ELSE CHOOSE i \in hits : \A j \in hits : j <= i

\* All sequences over S of length at most n.
SeqsUpTo(S, n) == UNION {[1..k -> S] : k \in 0..n}

\* ---------------------------------------------------------------- strings

\* The code points str.strip() removes, besides space, newline and tab.
OtherWhitespaceCodes ==
    {11, 12, 13, 28, 29, 30, 31, 133, 160, 5760, 8232, 8233, 8239, 8287, 12288}
        \cup (8192..8202)

\* The characters str.strip() removes and str.isspace() accepts.
Whitespace ==
    {" ", "\n", "\t"} \cup {"U+" \o ToString(c) : c \in OtherWhitespaceCodes}

\* The upper-case letters of ASCII and their lower-case forms.
UpperLetters ==
    <<"A", "B", "C", "D", "E", "F", "G", "H", "I", "J", "K", "L", "M",
      "N", "O", "P", "Q", "R", "S", "T", "U", "V", "W", "X", "Y", "Z">>

LowerLetters ==
    <<"a", "b", "c", "d", "e", "f", "g", "h", "i", "j", "k", "l", "m",
      "n", "o", "p", "q", "r", "s", "t", "u", "v", "w", "x", "y", "z">>

\* str.lower() on one character of ASCII.
LowerChar(c) ==
    IF \E i \in 1..Len(UpperLetters) : UpperLetters[i] = c
    THEN LowerLetters[CHOOSE i \in 1..Len(UpperLetters) : UpperLetters[i] = c]
    ELSE c

Lower(s) == [i \in 1..Len(s) |-> LowerChar(s[i])]

RECURSIVE LStrip(_)
LStrip(s) == IF s # <<>> /\ s[1] \in Whitespace THEN LStrip(Tail(s)) ELSE s

RECURSIVE RStrip(_)
RStrip(s) ==
    IF s # <<>> /\ s[Len(s)] \in Whitespace
    THEN RStrip(SubSeq(s, 1, Len(s) - 1))
    ELSE s

\* str.strip()
Strip(s) == RStrip(LStrip(s))

\* ----------------------------------------------------------- pathlib.Path

\* PurePosixPath(filename).name: the last component, trailing slashes and
\* "." components dropped.
RECURSIVE PathName(_)
PathName(s) ==
    IF s = <<>> THEN <<>>
    ELSE IF s[Len(s)] = "/" THEN PathName(SubSeq(s, 1, Len(s) - 1))
    ELSE LET cut  == RFind(s, "/")
             comp == From(s, cut + 1)
         IN  IF comp = <<".">> THEN PathName(SubSeq(s, 1, cut)) ELSE comp

\* PurePosixPath(filename).suffix
PathSuffix(s) ==
    LET name == PathName(s)
        i    == RFind(name, ".")
    IN  IF 1 < i /\ i < Len(name) THEN From(name, i) ELSE <<>>

\* ------------------------------------------------------------- extensions

ExtPdf  == <<".", "p", "d", "f">>
ExtDocx == <<".", "d", "o", "c", "x">>
ExtTxt  == <<".", "t", "x", "t">>
ExtJpg  == <<".", "j", "p", "g">>
ExtJpeg == <<".", "j", "p", "e", "g">>
ExtPng  == <<".", "p", "n", "g">>
ExtCsv  == <<".", "c", "s", "v">>
ExtExe  == <<".", "e", "x", "e">>

MimePdf  == "application/pdf"
MimeDocx == "application/vnd.openxmlformats-officedocument.wordprocessingml.document"
MimeTxt  == "text/plain"
MimeCsv  == "text/csv"
MimeJpeg == "image/jpeg"
MimePng  == "image/png"

\* DocumentProcessor.file_processor_map
FileProcessorMap ==
    [e \in {ExtPdf, ExtDocx, ExtTxt, ExtJpg, ExtJpeg, ExtPng} |->
        CASE e = ExtPdf  -> "pdf"
          [] e = ExtDocx -> "docx"
          [] e = ExtTxt  -> "txt"
          [] OTHER       -> "image"]

\* ---------------------------------------------------------- configuration

\* ProcessingConfig.__post_init__: the default allowed_extensions.
DefaultAllowedExtensions == {ExtPdf, ExtDocx, ExtTxt, ExtJpg, ExtJpeg, ExtPng}

\* ProcessingConfig.__post_init__: the default allowed_mime_types.
DefaultAllowedMimeTypes ==
    [e \in DefaultAllowedExtensions |->
        CASE e = ExtPdf  -> {MimePdf}
          [] e = ExtDocx -> {MimeDocx}
          [] e = ExtTxt  -> {MimeTxt, MimeCsv}
          [] e = ExtJpg  -> {MimeJpeg}
          [] e = ExtJpeg -> {MimeJpeg}
          [] OTHER       -> {MimePng}]

\* ProcessingConfig() with every field defaulted.
DefaultConfig ==
    [max_file_size      |-> MaxFileSize,
     text_extract_limit |-> TextExtractLimit,
     allowed_extensions |-> DefaultAllowedExtensions,
     allowed_mime_types |-> DefaultAllowedMimeTypes]

\* ProcessingConfig(allowed_extensions={'.pdf', '.txt'}): the content-type
\* map keeps its default, so it still names extensions no longer allowed.
RestrictedConfig ==
    [DefaultConfig EXCEPT !.allowed_extensions = {ExtPdf, ExtTxt}]

\* ProcessingConfig with no content-type set for '.txt' and an empty one
\* for '.png'.
PermissiveConfig ==
    [DefaultConfig EXCEPT
        !.allowed_mime_types =
            [e \in {ExtPdf, ExtDocx, ExtJpg, ExtJpeg, ExtPng} |->
                IF e = ExtPng THEN {} ELSE DefaultAllowedMimeTypes[e]]]

Configs == {DefaultConfig, RestrictedConfig, PermissiveConfig}

\* ----------------------------------------------------------------- inputs

\* Byte values a file is made of: space, 'a', and 0xE9, which Latin-1 reads as
\* a letter and which is no complete UTF-8 sequence.
Octets == {32, 97, 233}

\* File contents up to one byte over the size limit.
ByteSeqs == SeqsUpTo(Octets, MaxFileSize + 1)

Prefixes == {<<>>, <<"/">>, <<".", ".", "/">>}

Suffixes ==
    {<<>>, ExtTxt, <<".", "T", "X", "T">>, ExtPdf, ExtDocx, ExtPng,
     <<".", "P", "n", "G">>, ExtJpg, ExtJpeg, ExtCsv, ExtExe}

\* Candidate filenames: the empty name, and "a" with a prefix and a suffix.
Filenames == {<<>>} \cup {p \o <<"a">> \o x : p \in Prefixes, x \in Suffixes}

\* Declared content-types.
Mimes == {MimeTxt, MimePdf, MimeDocx, MimePng, MimeJpeg}

\* ------------------------------------------------------------- validation

\* _get_file_info: the 'extension' field.
FileExtension(filename) == Lower(PathSuffix(filename))

\* Mutant of GetExpectedMimeTypes: the default table is consulted instead of
\* the configured one.
GetExpectedMimeTypesDefault(cfg, extension) ==
    IF Lower(extension) \in DOMAIN DefaultAllowedMimeTypes
    THEN DefaultAllowedMimeTypes[Lower(extension)]
    ELSE {}

\* _get_expected_mime_types: allowed_mime_types.get(extension.lower(), set())
GetExpectedMimeTypes(cfg, extension) ==
    IF Lower(extension) \in DOMAIN cfg.allowed_mime_types
    THEN cfg.allowed_mime_types[Lower(extension)]
    ELSE {}

\* Mutant of ExtensionUnsupported: the extension is looked up among the keys
\* of the content-type table instead of in allowed_extensions.
ExtensionUnsupportedByMimeKeys(cfg, extension) ==
    extension \notin DOMAIN cfg.allowed_mime_types

\* _validate_file, line 73
ExtensionUnsupported(cfg, extension) ==
    extension \notin cfg.allowed_extensions

\* _validate_file, line 78
MimeMismatch(cfg, extension, mime) ==
    LET expected_mimes == GetExpectedMimeTypes(cfg, extension)
    IN  expected_mimes # {} /\ mime \notin expected_mimes

\* Mutant of SizeExceeds: >= in place of >.
SizeExceedsInclusive(cfg, size) == size >= cfg.max_file_size

\* _validate_file, line 85
SizeExceeds(cfg, size) == size > cfg.max_file_size

\* Mutant of PathTraversal: the leading '/' is not looked for.
PathTraversalDotsOnly(filename) ==
    \E i \in 1..(Len(filename) - 1) : filename[i] = "." /\ filename[i + 1] = "."

\* _validate_file, line 89: '..' in filename or filename.startswith('/')
PathTraversal(filename) ==
    \/ \E i \in 1..(Len(filename) - 1) : filename[i] = "." /\ filename[i + 1] = "."
    \/ (filename # <<>> /\ filename[1] = "/")

\* _validate_file: "ok", or the error of the first check that fails.
ValidateFile(cfg, filename, file_bytes, file_mime) ==
    LET extension == FileExtension(filename)
        size      == Len(file_bytes)
    IN  IF ExtensionUnsupported(cfg, extension) THEN "UnsupportedExtension"
        ELSE IF MimeMismatch(cfg, extension, file_mime) THEN "ContentTypeMismatch"
        ELSE IF SizeExceeds(cfg, size) THEN "FileTooLarge"
        ELSE IF PathTraversal(filename) THEN "UnsafeFilename"
        ELSE "ok"

\* Mutant of InputMissing: only the filename is looked at.
InputMissingNameOnly(filename, file_bytes) == filename = <<>>

\* process_document_async, line 324: not filename or not file_bytes
InputMissing(filename, file_bytes) == filename = <<>> \/ file_bytes = <<>>

\* ------------------------------------------------------------- extraction

PageTexts == {<<>>, <<"a">>, <<" ">>}

\* Paged documents fitz.open returns: the text of each page.
PdfDocs == SeqsUpTo(PageTexts, MaxPages)

DigitChar(d) ==
    CASE d = 0 -> "0" [] d = 1 -> "1" [] d = 2 -> "2" [] d = 3 -> "3"
      [] d = 4 -> "4" [] d = 5 -> "5" [] d = 6 -> "6" [] d = 7 -> "7"
      [] d = 8 -> "8" [] OTHER -> "9"

\* str(n) for n >= 0
RECURSIVE Decimal(_)
Decimal(n) ==
    IF n < 10 THEN <<DigitChar(n)>>
    ELSE Decimal(n \div 10) \o <<DigitChar(n % 10)>>

\* Mutant of PageHeader: the page is numbered by its zero-based index.
PageHeaderZeroBased(n) ==
    <<"\n", "-", "-", "-", " ", "P", "a", "g", "e", " ">> \o Decimal(n - 1)
        \o <<" ", "-", "-", "-", "\n">>

\* f"\n--- Page {page_num + 1} ---\n"
PageHeader(n) ==
    <<"\n", "-", "-", "-", " ", "P", "a", "g", "e", " ">> \o Decimal(n)
        \o <<" ", "-", "-", "-", "\n">>

\* _extract_text_from_pdf_bytes, lines 165-168: the text of pages 1..k.
RECURSIVE PdfText(_, _)
PdfText(pages, k) ==
    IF k = 0 THEN <<>>
    ELSE PdfText(pages, k - 1)
            \o (IF pages[k] # <<>> THEN PageHeader(k) \o pages[k] ELSE <<>>)

ParagraphTexts == {<<>>, <<"a">>, <<" ">>, <<" ", "a">>}

\* Tables of a DOCX: each a sequence of rows, each row its cells' texts.
TableSets ==
    {<<>>,
     << << <<<<"A">>, <<"B">>>> >> >>,
     << << <<<<>>, <<"B">>>>, <<<<>>>> >> >>}

\* Documents python-docx returns.
DocxDocs ==
    {[paragraphs |-> ps, tables |-> ts] :
        ps \in SeqsUpTo(ParagraphTexts, MaxParagraphs), ts \in TableSets}

\* lines 193-195: the paragraphs 1..k, each non-empty one followed by "\n".
RECURSIVE ParagraphsText(_, _)
ParagraphsText(ps, k) ==
    IF k = 0 THEN <<>>
    ELSE ParagraphsText(ps, k - 1)
            \o (IF ps[k] # <<>> THEN ps[k] \o <<"\n">> ELSE <<>>)

\* Mutant of RowText: every cell is joined, the empty ones included.
RECURSIVE RowTextAllCells(_, _)
RowTextAllCells(cells, k) ==
    IF k = 0 THEN <<>>
    ELSE IF k = 1 THEN cells[1]
    ELSE RowTextAllCells(cells, k - 1) \o <<" ", "|", " ">> \o cells[k]

\* ' | '.join(cell.text for cell in row.cells if cell.text), cells 1..k
RECURSIVE RowText(_, _)
RowText(cells, k) ==
    IF k = 0 THEN <<>>
    ELSE LET before == RowText(cells, k - 1)
         IN  IF cells[k] = <<>> THEN before
             ELSE IF before = <<>> THEN cells[k]
             ELSE before \o <<" ", "|", " ">> \o cells[k]

TableRowMarker ==
    <<"T", "a", "b", "l", "e", " ", "r", "o", "w", ":", " ">>

\* lines 199-202: rows 1..k of one table.
RECURSIVE RowsText(_, _)
RowsText(rows, k) ==
    IF k = 0 THEN <<>>
    ELSE LET row_text == RowText(rows[k], Len(rows[k]))
         IN  RowsText(rows, k - 1)
                \o (IF row_text # <<>>
                    THEN TableRowMarker \o row_text \o <<"\n">>
                    ELSE <<>>)

\* lines 198-202: tables 1..k.
RECURSIVE TablesText(_, _)
TablesText(ts, k) ==
    IF k = 0 THEN <<>>
    ELSE TablesText(ts, k - 1) \o RowsText(ts[k], Len(ts[k]))

\* fitz.open(stream=pdf_bytes): a paged document, or an exception.
PdfOpenOutcomes ==
    {[ok |-> FALSE, doc |-> <<>>]} \cup {[ok |-> TRUE, doc |-> d] : d \in PdfDocs}

\* Document(BytesIO(docx_bytes)): a document, or an exception.
DocxOpenOutcomes ==
    {[ok |-> FALSE, doc |-> [paragraphs |-> <<>>, tables |-> <<>>]]}
        \cup {[ok |-> TRUE, doc |-> d] : d \in DocxDocs}

\* _extract_text_from_docx_bytes, lines 190-202
DocxText(doc) ==
    ParagraphsText(doc.paragraphs, Len(doc.paragraphs))
        \o TablesText(doc.tables, Len(doc.tables))

\* The character a code point stands for.
Chr(b) ==
    CASE b = 32 -> " "
      [] b = 10 -> "\n"
      [] b = 9  -> "\t"
      [] b = 97 -> "a"
      [] OTHER  -> "U+" \o ToString(b)

\* How many continuation bytes a UTF-8 lead byte asks for; -1 for a byte
\* that cannot start a sequence.
Utf8Following(b) ==
    IF b < 128 THEN 0
    ELSE IF b >= 194 /\ b <= 223 THEN 1
    ELSE IF b >= 224 /\ b <= 239 THEN 2
    ELSE IF b >= 240 /\ b <= 244 THEN 3
    ELSE -1

Utf8Continuation(b) == b >= 128 /\ b <= 191

\* The byte after the lead byte: narrower than a continuation byte where an
\* overlong form, a surrogate or a code point past U+10FFFF would result.
Utf8Second(lead, b) ==
    IF lead = 224 THEN b >= 160 /\ b <= 191
    ELSE IF lead = 237 THEN b >= 128 /\ b <= 159
    ELSE IF lead = 240 THEN b >= 144 /\ b <= 191
    ELSE IF lead = 244 THEN b >= 128 /\ b <= 143
    ELSE Utf8Continuation(b)

\* How many bytes at the head of bs form a well-formed start of one
\* sequence: n + 1 when the whole sequence is there, fewer when it breaks
\* off, 0 when the first byte cannot start one.
Utf8Head(bs) ==
    LET n == Utf8Following(bs[1])
        good(j) == /\ j <= Len(bs)
                   /\ IF j = 2 THEN Utf8Second(bs[1], bs[2])
                      ELSE Utf8Continuation(bs[j])
    IN  IF n < 0 THEN 0
        ELSE IF \A j \in 2..(n + 1) : good(j) THEN n + 1
        ELSE CHOOSE k \in 1..n :
                /\ \A j \in 2..k : good(j)
                /\ ~good(k + 1)

\* bytes.decode('utf-8') does not raise UnicodeDecodeError.
RECURSIVE Utf8Valid(_)
Utf8Valid(bs) ==
    IF bs = <<>> THEN TRUE
    ELSE LET n == Utf8Following(bs[1])
         IN  /\ n >= 0
             /\ Utf8Head(bs) = n + 1
             /\ Utf8Valid(From(bs, n + 2))

\* The code point a well-formed sequence of one to four bytes encodes.
Utf8CodePoint(s) ==
    IF Len(s) = 1 THEN s[1]
    ELSE IF Len(s) = 2 THEN (s[1] - 192) * 64 + (s[2] - 128)
    ELSE IF Len(s) = 3
    THEN (s[1] - 224) * 4096 + (s[2] - 128) * 64 + (s[3] - 128)
    ELSE (s[1] - 240) * 262144 + (s[2] - 128) * 4096 + (s[3] - 128) * 64
            + (s[4] - 128)

\* bytes.decode('utf-8') of a valid sequence: one character per code point.
RECURSIVE Utf8Decode(_)
Utf8Decode(bs) ==
    IF bs = <<>> THEN <<>>
    ELSE LET n == Utf8Following(bs[1])
         IN  <<Chr(Utf8CodePoint(SubSeq(bs, 1, n + 1)))>>
                \o Utf8Decode(From(bs, n + 2))

\* bytes.decode('utf-8', errors='replace'): U+FFFD for every ill-formed
\* stretch.
RECURSIVE Utf8DecodeReplace(_)
Utf8DecodeReplace(bs) ==
    IF bs = <<>> THEN <<>>
    ELSE LET n == Utf8Following(bs[1])
             h == Utf8Head(bs)
         IN  IF n >= 0 /\ h = n + 1
             THEN <<Chr(Utf8CodePoint(SubSeq(bs, 1, h)))>>
                     \o Utf8DecodeReplace(From(bs, h + 1))
             ELSE <<Chr(65533)>>
                     \o Utf8DecodeReplace(From(bs, (IF h = 0 THEN 1 ELSE h) + 1))

\* bytes.decode('latin-1'): every byte is a character.
Latin1Decode(bs) == [i \in 1..Len(bs) |-> Chr(bs[i])]

\* The bytes 0x80-0x9F that Windows-1252 assigns, and their code points.
Cp1252High ==
    [b \in (128..159) \ {129, 141, 143, 144, 157} |->
        CASE b = 128 -> 8364 [] b = 130 -> 8218 [] b = 131 -> 402
          [] b = 132 -> 8222 [] b = 133 -> 8230 [] b = 134 -> 8224
          [] b = 135 -> 8225 [] b = 136 -> 710  [] b = 137 -> 8240
          [] b = 138 -> 352  [] b = 139 -> 8249 [] b = 140 -> 338
          [] b = 142 -> 381  [] b = 145 -> 8216 [] b = 146 -> 8217
          [] b = 147 -> 8220 [] b = 148 -> 8221 [] b = 149 -> 8226
          [] b = 150 -> 8211 [] b = 151 -> 8212 [] b = 152 -> 732
          [] b = 153 -> 8482 [] b = 154 -> 353  [] b = 155 -> 8250
          [] b = 156 -> 339  [] b = 158 -> 382  [] OTHER -> 376]

\* bytes.decode('windows-1252') does not raise UnicodeDecodeError.
Cp1252Valid(bs) ==
    \A i \in 1..Len(bs) :
        (bs[i] >= 128 /\ bs[i] <= 159) => bs[i] \in DOMAIN Cp1252High

Cp1252Decode(bs) ==
    [i \in 1..Len(bs) |->
        IF bs[i] \in DOMAIN Cp1252High THEN Chr(Cp1252High[bs[i]])
        ELSE Chr(bs[i])]

\* Mutant of Encodings: Latin-1 is tried before UTF-8.
EncodingsLatin1First == <<"latin-1", "utf-8", "windows-1252", "iso-8859-1">>

\* line 221: the encodings, in the order they are tried.
Encodings == <<"utf-8", "latin-1", "windows-1252", "iso-8859-1">>

\* txt_bytes.decode(encoding) does not raise UnicodeDecodeError.
Decodes(encoding, bs) ==
    IF encoding = "utf-8" THEN Utf8Valid(bs)
    ELSE IF encoding = "windows-1252" THEN Cp1252Valid(bs)
    ELSE TRUE

\* txt_bytes.decode(encoding), 'iso-8859-1' being another name of 'latin-1'.
DecodeWith(encoding, bs) ==
    IF encoding = "utf-8" THEN Utf8Decode(bs)
    ELSE IF encoding = "windows-1252" THEN Cp1252Decode(bs)
    ELSE Latin1Decode(bs)

\* _extract_text_from_txt_bytes, lines 222-233: the first encoding of the
\* list that decodes, and the replacing decoder when text is still None.
TxtText(bs) ==
    LET tried == {k \in 1..Len(Encodings) : Decodes(Encodings[k], bs)}
    IN  IF tried = {}
        THEN Utf8DecodeReplace(bs)
        ELSE DecodeWith(Encodings[CHOOSE k \in tried : \A j \in tried : k <= j], bs)

\* ---------------------------------------------------- summarization adapter

NoContentMessage == <<"No extractable text content found.">>

FallbackHeader == <<"Original content:\n\n">>

\* A response longer than the extraction limit.
LongResponse == [i \in 1..(TextExtractLimit + 1) |-> "s"]

\* Another response longer than the limit, the same in its first
\* TextExtractLimit characters.
LongResponseOther ==
    [i \in 1..(TextExtractLimit + 1) |-> IF i <= TextExtractLimit THEN "s" ELSE "t"]

\* What result.message.content can be.
Responses == {<<>>, <<" ">>, <<"s">>, LongResponse, LongResponseOther}

\* Mutant of IsBlank: the text is not stripped before it is tested.
IsBlankEmptyOnly(text) == text = <<>>

\* _clean_and_summarize_text, line 99: not text or not text.strip()
IsBlank(text) == text = <<>> \/ Strip(text) = <<>>

\* Mutant of FallbackText: the original text is not cut.
FallbackTextUncut(cfg, text) == FallbackHeader \o text

\* _clean_and_summarize_text, line 148
FallbackText(cfg, text) == FallbackHeader \o Prefix(text, cfg.text_extract_limit)

\* ------------------------------------------------------------------ state

VARIABLES
    entry,      \* which entry point the caller used
    config,     \* DocumentProcessor.config
    filename,   \* process_document_async: filename
    file_bytes, \* process_document_async: file_bytes
    file_mime,  \* process_document_async: file_mime
    pc,         \* where the single-file run stands
    err,        \* the error the run raised, "none" while it has raised none
    outcome,    \* "running", "returned" or "raised"
    processor,  \* the extractor picked from file_processor_map
    extracted,  \* the text the extractor built, before it is cut
    text,       \* the text handed to _clean_and_summarize_text
    result,     \* the string process_document_async returns
    calls,      \* the client.chat calls made so far, in order
    file_data,  \* the batch mapping, in insertion order
    bidx,       \* position of the batch loop in file_data
    tasks,      \* batch_process_documents_async: the (filename, task) list
    results,    \* the batch result mapping
    bpc,        \* where the batch call stands
    file,       \* process_single_file_async: the file object of the caller
    library,    \* what the document library made of file_bytes
    awaiting,   \* the model whose answer the coroutine is suspended on
    run,        \* 1 for the first call on these inputs, 2 for the second
    first       \* how the first call ended, once a second one is made

vars ==
    <<entry, config, filename, file_bytes, file_mime, pc, err, outcome,
      processor, extracted, text, result, calls, file_data, bidx, tasks,
      results, bpc, file, library, awaiting, run, first>>

runVars ==
    <<filename, file_bytes, file_mime, pc, err, outcome, processor, extracted,
      text, result, calls>>

batchVars == <<file_data, bidx, tasks, results, bpc>>

callerVars == <<file, run, first>>

\* ------------------------------------------------------------ batch inputs

BatchNames ==
    {<<"a">> \o ExtTxt, <<"a">> \o ExtPdf, <<"/", "a">> \o ExtExe}

BatchBytes == {<<>>, <<97>>}

\* dict[str, bytes] in insertion order: no filename twice.
BatchInputs ==
    {fd \in SeqsUpTo([filename : BatchNames, file_bytes : BatchBytes], MaxBatch) :
        \A i, j \in 1..Len(fd) : fd[i].filename = fd[j].filename => i = j}

\* The empty dict.
EmptyMap == [n \in {} |-> <<>>]

\* d[key] = value
Store(d, key, value) ==
    [n \in DOMAIN d \cup {key} |-> IF n = key THEN value ELSE d[n]]

\* ------------------------------------------------------ the file object

\* No file object: process_single_file_async is given None, and the other
\* entry points are given names and bytes, never a cl.File.
NoFile ==
    [is_none |-> TRUE, name |-> <<>>, mime |-> "", has_content |-> FALSE,
     content |-> <<>>, has_path |-> FALSE, path |-> <<>>, on_disk |-> FALSE,
     disk |-> <<>>]

\* Names of the files a chat message carries.
FileNames ==
    {<<"a">> \o ExtTxt, <<"a">> \o ExtPdf, <<"a">> \o ExtDocx, <<"a">> \o ExtPng}

\* What is stored under the path of a file kept on disk.
DiskBytes == SeqsUpTo({97}, MaxFileSize + 1)

\* cl.File objects: 'content' is bytes or None, 'path' a string or None, and
\* the path, when it is a non-empty string, names a file that exists or
\* does not.
Files ==
    [is_none : {FALSE}, name : FileNames, mime : Mimes,
     has_content : {TRUE}, content : ByteSeqs,
     has_path : {FALSE}, path : {<<>>}, on_disk : {FALSE}, disk : {<<>>}]
    \cup
    [is_none : {FALSE}, name : FileNames, mime : Mimes,
     has_content : BOOLEAN, content : {<<>>},
     has_path : BOOLEAN, path : {<<>>}, on_disk : {FALSE}, disk : {<<>>}]
    \cup
    [is_none : {FALSE}, name : FileNames, mime : Mimes,
     has_content : {FALSE}, content : {<<>>},
     has_path : {TRUE}, path : {<<"/", "f">>}, on_disk : {FALSE}, disk : {<<>>}]
    \cup
    [is_none : {FALSE}, name : FileNames, mime : Mimes,
     has_content : {FALSE}, content : {<<>>},
     has_path : {TRUE}, path : {<<"/", "f">>}, on_disk : {TRUE}, disk : DiskBytes]
    \cup
    [is_none : {FALSE}, name : FileNames, mime : Mimes,
     has_content : {TRUE}, content : {<<>>, <<97>>, <<233, 32>>},
     has_path : {TRUE}, path : {<<"/", "f">>}, on_disk : {TRUE}, disk : DiskBytes]
    \cup {NoFile}

\* Mutant of ReadBytes: the path is tried before the inline content.
ReadBytesPathFirst(f) ==
    IF f.has_path /\ f.path # <<>>
    THEN IF f.on_disk
         THEN [err |-> "none", bytes |-> f.disk]
         ELSE [err |-> "FileNotFound", bytes |-> <<>>]
    ELSE IF f.has_content
    THEN [err |-> "none", bytes |-> f.content]
    ELSE [err |-> "ContentUnavailable", bytes |-> <<>>]

\* _read_bytes, lines 43-50: the inline content when it is bytes, else what
\* open(path, 'rb') reads when the path is a non-empty string, else the
\* ValueError of line 50.
ReadBytes(f) ==
    IF f.has_content
    THEN [err |-> "none", bytes |-> f.content]
    ELSE IF f.has_path /\ f.path # <<>>
    THEN IF f.on_disk
         THEN [err |-> "none", bytes |-> f.disk]
         ELSE [err |-> "FileNotFound", bytes |-> <<>>]
    ELSE [err |-> "ContentUnavailable", bytes |-> <<>>]

\* ------------------------------------------------------------------- Init

\* Before an extractor has opened the bytes, the library has said nothing.
NoLibrary == [read |-> FALSE, ok |-> FALSE, doc |-> <<>>]

\* Before a second call is made, no first call has ended.
NoFirst ==
    [ended |-> FALSE, pc |-> "none", outcome |-> "running", err |-> "none",
     extracted |-> <<>>, result |-> <<>>, calls |-> <<>>]

InitSingle ==
    /\ entry = "single"
    /\ config \in Configs
    /\ filename \in Filenames
    /\ file_bytes \in ByteSeqs
    /\ file_mime \in Mimes
    /\ pc = "Received"
    /\ file_data = <<>>
    /\ bpc = "idle"

InitBatch ==
    /\ entry \in {"batch", "batch_async"}
    /\ config \in Configs
    /\ filename = <<>>
    /\ file_bytes = <<>>
    /\ file_mime = ""
    /\ pc = "idle"
    /\ file_data \in BatchInputs
    /\ bpc = "loop"

\* A fresh call: nothing raised, nothing extracted, no service call made.
InitRun ==
    /\ err = "none"
    /\ outcome = "running"
    /\ processor = "none"
    /\ extracted = <<>>
    /\ text = <<>>
    /\ result = <<>>
    /\ calls = <<>>
    /\ bidx = 1
    /\ tasks = <<>>
    /\ results = EmptyMap
    /\ library = NoLibrary
    /\ awaiting = "none"
    /\ run = 1
    /\ first = NoFirst

Init ==
    /\ (InitSingle \/ InitBatch)
    /\ file = NoFile
    /\ InitRun

\* ------------------------------------------------- process_document_async

\* A raise inside process_document_async: logged at line 344, raised again
\* at line 345.
Raise(at, error) ==
    /\ pc' = at
    /\ err' = error
    /\ outcome' = "raised"

\* Lines 324-328: the input check, then _validate_file.
Validate ==
    /\ entry \in {"single", "file"}
    /\ pc = "Received"
    /\ IF InputMissing(filename, file_bytes)
       THEN Raise("Rejected", "InvalidInput")
       ELSE LET v == ValidateFile(config, filename, file_bytes, file_mime)
            IN  IF v = "ok"
                THEN pc' = "Validated" /\ UNCHANGED <<err, outcome>>
                ELSE Raise("Rejected", v)
    /\ UNCHANGED <<entry, config, filename, file_bytes, file_mime, processor,
                   extracted, text, result, calls>>
    /\ UNCHANGED batchVars
    /\ UNCHANGED <<callerVars, library, awaiting>>

\* Lines 333-335: file_processor_map.get(file_info['extension']).
Dispatch ==
    /\ pc = "Validated"
    /\ LET extension == FileExtension(filename)
       IN  IF extension \in DOMAIN FileProcessorMap
           THEN /\ processor' = FileProcessorMap[extension]
                /\ pc' = "Dispatched"
                /\ UNCHANGED <<err, outcome>>
           ELSE /\ Raise("Failed", "UnsupportedExtension")
                /\ UNCHANGED processor
    /\ UNCHANGED <<entry, config, filename, file_bytes, file_mime, extracted,
                   text, result, calls>>
    /\ UNCHANGED batchVars
    /\ UNCHANGED <<callerVars, library, awaiting>>

\* Mutant of Extracted: the extractor returns without calling the adapter.
ExtractedSkipsAdapter(raw, handed) ==
    /\ extracted' = raw
    /\ text' = handed
    /\ pc' = "Done"
    /\ outcome' = "returned"
    /\ UNCHANGED err

\* An extractor has built its text: lines 175, 206, 237 hand `handed` to the
\* adapter.
Extracted(raw, handed) ==
    /\ extracted' = raw
    /\ text' = handed
    /\ pc' = "Extracted"
    /\ UNCHANGED <<err, outcome>>

\* Mutant of ExtractionFailed: the extractor swallows its failure and hands
\* an empty text to the adapter.
ExtractionFailedDegrades ==
    /\ extracted' = <<>>
    /\ text' = <<>>
    /\ pc' = "Extracted"
    /\ UNCHANGED <<err, outcome>>

\* An extractor's except clause: lines 179-181, 210-212, 241-243, 306-308.
ExtractionFailed ==
    /\ Raise("Failed", "ExtractionFailed")
    /\ UNCHANGED <<extracted, text>>

\* _extract_text_from_pdf_bytes, lines 156-175.
ExtractPdf ==
    /\ pc = "Dispatched"
    /\ processor = "pdf"
    /\ \E opened \in PdfOpenOutcomes :
          /\ library.read => (opened.ok = library.ok /\ opened.doc = library.doc)
          /\ library' = [read |-> TRUE, ok |-> opened.ok, doc |-> opened.doc]
          /\ IF ~opened.ok
             THEN ExtractionFailed
             ELSE LET raw == PdfText(opened.doc, Len(opened.doc))
                  IN  Extracted(raw, Prefix(raw, config.text_extract_limit))
    /\ UNCHANGED <<entry, config, filename, file_bytes, file_mime, processor,
                   result, calls>>
    /\ UNCHANGED batchVars
    /\ UNCHANGED <<callerVars, awaiting>>

\* _extract_text_from_docx_bytes, lines 189-206.
ExtractDocx ==
    /\ pc = "Dispatched"
    /\ processor = "docx"
    /\ \E opened \in DocxOpenOutcomes :
          /\ library.read => (opened.ok = library.ok /\ opened.doc = library.doc)
          /\ library' = [read |-> TRUE, ok |-> opened.ok, doc |-> opened.doc]
          /\ IF ~opened.ok
             THEN ExtractionFailed
             ELSE LET raw == DocxText(opened.doc)
                  IN  Extracted(raw, Strip(Prefix(raw, config.text_extract_limit)))
    /\ UNCHANGED <<entry, config, filename, file_bytes, file_mime, processor,
                   result, calls>>
    /\ UNCHANGED batchVars
    /\ UNCHANGED <<callerVars, awaiting>>

\* _extract_text_from_txt_bytes, lines 221-237.
ExtractTxt ==
    /\ pc = "Dispatched"
    /\ processor = "txt"
    /\ LET raw == TxtText(file_bytes)
       IN  Extracted(raw, Prefix(raw, config.text_extract_limit))
    /\ UNCHANGED <<entry, config, filename, file_bytes, file_mime, processor,
                   result, calls>>
    /\ UNCHANGED batchVars
    /\ UNCHANGED <<callerVars, library, awaiting>>

\* Mutant of VisionCallFailed: the failure is turned into an empty text and
\* the run goes on to the adapter.
VisionCallDegrades ==
    /\ extracted' = <<>>
    /\ text' = <<>>
    /\ pc' = "Extracted"
    /\ UNCHANGED <<err, outcome>>

\* The vision call's failure, lines 306-308: the ValueError raised from it.
VisionCallFailed == ExtractionFailed

\* _extract_content_from_image_bytes, lines 251-293: the bytes are encoded,
\* the message is built and client.chat is called with the vision model;
\* the coroutine is suspended at the await until the service answers.
VisionCall ==
    /\ pc = "Dispatched"
    /\ processor = "image"
    /\ awaiting = "none"
    /\ awaiting' = "vision"
    /\ UNCHANGED <<entry, config, filename, file_bytes, file_mime, processor,
                   pc, err, outcome, extracted, text, result, calls>>
    /\ UNCHANGED batchVars
    /\ UNCHANGED <<callerVars, library>>

\* Mutant of ExtractImage: the vision content is cut to the extraction limit
\* before it is handed to the adapter.
ExtractImageCuts ==
    /\ pc = "Dispatched"
    /\ processor = "image"
    /\ awaiting = "vision"
    /\ awaiting' = "none"
    /\ \E ok \in BOOLEAN, content \in Responses :
          /\ calls' = Append(calls, [model |-> "vision", ok |-> ok])
          /\ IF ok
             THEN Extracted(content, Prefix(content, config.text_extract_limit))
             ELSE VisionCallFailed
    /\ UNCHANGED <<entry, config, filename, file_bytes, file_mime, processor,
                   result>>
    /\ UNCHANGED batchVars
    /\ UNCHANGED <<callerVars, library>>

\* _extract_content_from_image_bytes, lines 293-308: the vision call
\* answers or raises; its response content is handed to the adapter as it
\* is, its failure raised again.
ExtractImage ==
    /\ pc = "Dispatched"
    /\ processor = "image"
    /\ awaiting = "vision"
    /\ awaiting' = "none"
    /\ \E ok \in BOOLEAN, content \in Responses :
          /\ calls' = Append(calls, [model |-> "vision", ok |-> ok])
          /\ IF ok THEN Extracted(content, content) ELSE VisionCallFailed
    /\ UNCHANGED <<entry, config, filename, file_bytes, file_mime, processor,
                   result>>
    /\ UNCHANGED batchVars
    /\ UNCHANGED <<callerVars, library>>

\* _clean_and_summarize_text, lines 99-135: a blank text is answered with
\* the fixed message; for any other text the prompt is built and
\* client.chat is called with the text model, the coroutine suspended at
\* the await until the service answers.
AdapterCall ==
    /\ pc = "Extracted"
    /\ awaiting = "none"
    /\ IF IsBlank(text)
       THEN /\ result' = NoContentMessage
            /\ pc' = "NoContent"
            /\ UNCHANGED awaiting
       ELSE /\ awaiting' = "text"
            /\ UNCHANGED <<result, pc>>
    /\ UNCHANGED <<entry, config, filename, file_bytes, file_mime, processor,
                   extracted, text, err, outcome, calls>>
    /\ UNCHANGED batchVars
    /\ UNCHANGED <<callerVars, library>>

\* Mutant of Summarize: the except clause also lowers the extraction limit
\* kept on the processor's configuration, which the next call then reads.
SummarizeLowersLimit ==
    /\ pc = "Extracted"
    /\ awaiting = "text"
    /\ awaiting' = "none"
    /\ \E ok \in BOOLEAN, content \in Responses :
          /\ calls' = Append(calls, [model |-> "text", ok |-> ok])
          /\ IF ok
             THEN /\ result' = content
                  /\ pc' = "Summarized"
                  /\ UNCHANGED config
             ELSE /\ result' = FallbackText(config, text)
                  /\ pc' = "Fallback"
                  /\ config' = [config EXCEPT !.text_extract_limit = @ - 1]
    /\ UNCHANGED <<entry, filename, file_bytes, file_mime, processor,
                   extracted, text, err, outcome>>
    /\ UNCHANGED batchVars
    /\ UNCHANGED <<callerVars, library>>

\* _clean_and_summarize_text, lines 135-148: the text call answers, and its
\* content is returned, or raises, and the fallback text is returned.
Summarize ==
    /\ pc = "Extracted"
    /\ awaiting = "text"
    /\ awaiting' = "none"
    /\ \E ok \in BOOLEAN, content \in Responses :
          /\ calls' = Append(calls, [model |-> "text", ok |-> ok])
          /\ IF ok
             THEN result' = content /\ pc' = "Summarized"
             ELSE result' = FallbackText(config, text) /\ pc' = "Fallback"
    /\ UNCHANGED <<entry, config, filename, file_bytes, file_mime, processor,
                   extracted, text, err, outcome>>
    /\ UNCHANGED batchVars
    /\ UNCHANGED <<callerVars, library>>

\* Lines 340-341: the extractor's string is returned.
Return ==
    /\ pc \in {"NoContent", "Summarized", "Fallback"}
    /\ pc' = "Done"
    /\ outcome' = "returned"
    /\ UNCHANGED <<entry, config, filename, file_bytes, file_mime, processor,
                   extracted, text, result, calls, err>>
    /\ UNCHANGED batchVars
    /\ UNCHANGED <<callerVars, library, awaiting>>

\* ------------------------------------------------------------------ batch

\* process_document_async(self, filename, file_bytes, file_mime)
ProcessDocumentAsyncParams == <<"filename", "file_bytes", "file_mime">>

\* process_single_file_async(self, file)
ProcessSingleFileAsyncParams == <<"file">>

\* Line 361: self.process_document_async(filename, file_bytes)
BatchSeqCallArgs == <<"filename", "file_bytes">>

\* Line 382: self.process_single_file_async(filename, file_bytes)
BatchAsyncCallArgs == <<"filename", "file_bytes">>

\* A call of a method whose parameters have no defaults binds when it gives
\* one positional argument per parameter, and raises TypeError otherwise,
\* before any of the method's body runs.
Binds(params, args) == Len(args) = Len(params)

\* f"Error processing {filename}: {str(e)}"
ErrorString(exc) == [kind |-> "error", exc |-> exc]

\* What line 361 stores: the value of the call expression, which is never
\* awaited in this synchronous method, or the error string of line 363.
BatchSeqValue ==
    IF Binds(ProcessDocumentAsyncParams, BatchSeqCallArgs)
    THEN [kind |-> "coroutine", exc |-> "none"]
    ELSE ErrorString("TypeError")

\* batch_process_documents, lines 359-363: one turn of the loop.
BatchSeqStep ==
    /\ entry = "batch"
    /\ bpc = "loop"
    /\ bidx <= Len(file_data)
    /\ results' = Store(results, file_data[bidx].filename, BatchSeqValue)
    /\ bidx' = bidx + 1
    /\ UNCHANGED <<entry, config, file_data, tasks, bpc>>
    /\ UNCHANGED runVars
    /\ UNCHANGED <<callerVars, library, awaiting>>

\* batch_process_documents, line 365.
BatchSeqReturn ==
    /\ entry = "batch"
    /\ bpc = "loop"
    /\ bidx > Len(file_data)
    /\ bpc' = "returned"
    /\ UNCHANGED <<entry, config, file_data, tasks, results, bidx>>
    /\ UNCHANGED runVars
    /\ UNCHANGED <<callerVars, library, awaiting>>

\* batch_process_documents_async, lines 381-383: one turn of the first
\* loop.  The call expression is evaluated outside any try block.
BatchAsyncCreateTask ==
    /\ entry = "batch_async"
    /\ bpc = "loop"
    /\ bidx <= Len(file_data)
    /\ IF Binds(ProcessSingleFileAsyncParams, BatchAsyncCallArgs)
       THEN /\ tasks' = Append(tasks, [filename |-> file_data[bidx].filename,
                                        value    |-> [kind |-> "pending",
                                                      exc  |-> "none"]])
            /\ bidx' = bidx + 1
            /\ UNCHANGED <<bpc, err>>
       ELSE /\ bpc' = "raised"
            /\ err' = "TypeError"
            /\ UNCHANGED <<tasks, bidx>>
    /\ UNCHANGED <<entry, config, file_data, results>>
    /\ UNCHANGED <<filename, file_bytes, file_mime, pc, outcome, processor,
                   extracted, text, result, calls>>
    /\ UNCHANGED <<callerVars, library, awaiting>>

\* batch_process_documents_async, lines 385-391: the tasks are awaited in
\* order and the mapping is returned.
BatchAsyncJoin ==
    /\ entry = "batch_async"
    /\ bpc = "loop"
    /\ bidx > Len(file_data)
    /\ results' = [n \in {tasks[i].filename : i \in 1..Len(tasks)} |->
                      LET i == CHOOSE j \in 1..Len(tasks) : tasks[j].filename = n
                      IN  tasks[i].value]
    /\ bpc' = "returned"
    /\ UNCHANGED <<entry, config, file_data, tasks, bidx>>
    /\ UNCHANGED runVars
    /\ UNCHANGED <<callerVars, library, awaiting>>

\* ---------------------------------------------------------- specification

\* ------------------------------------------------------- a second call

\* process_document_async is called again with the same filename, bytes and
\* declared type, the first call having returned or raised. The method
\* keeps nothing on the processor (lines 310-345 assign locals only), so the
\* call starts as the first did; the bytes being the same, the library
\* makes of them what it made before.
CallAgain ==
    /\ entry = "single"
    /\ run = 1
    /\ outcome # "running"
    /\ first' = [ended |-> TRUE, pc |-> pc, outcome |-> outcome, err |-> err,
                 extracted |-> extracted, result |-> result, calls |-> calls]
    /\ run' = 2
    /\ pc' = "Received"
    /\ err' = "none"
    /\ outcome' = "running"
    /\ processor' = "none"
    /\ extracted' = <<>>
    /\ text' = <<>>
    /\ result' = <<>>
    /\ calls' = <<>>
    /\ UNCHANGED <<entry, config, filename, file_bytes, file_mime, file, library>>
    /\ UNCHANGED <<batchVars, awaiting>>

\* ----------------------------------------------- process_single_file_async

\* Lines 395-399: the None test, str(file.name), _read_bytes, str(file.mime);
\* line 403 then enters process_document_async. A raise here leaves the
\* method before the pipeline is called.
ReadFile ==
    /\ entry = "file"
    /\ pc = "Caller"
    /\ IF file.is_none
       THEN /\ Raise("Unavailable", "FileIsNone")
            /\ UNCHANGED <<filename, file_bytes, file_mime>>
       ELSE LET read == ReadBytes(file)
            IN  IF read.err # "none"
                THEN /\ Raise("Unavailable", read.err)
                     /\ filename' = file.name
                     /\ UNCHANGED <<file_bytes, file_mime>>
                ELSE /\ filename' = file.name
                     /\ file_bytes' = read.bytes
                     /\ file_mime' = file.mime
                     /\ pc' = "Received"
                     /\ UNCHANGED <<err, outcome>>
    /\ UNCHANGED <<entry, config, processor, extracted, text, result, calls>>
    /\ UNCHANGED batchVars
    /\ UNCHANGED <<callerVars, library, awaiting>>

Next ==
    \/ Validate
    \/ Dispatch
    \/ ExtractPdf
    \/ ExtractDocx
    \/ ExtractTxt
    \/ VisionCall
    \/ ExtractImage
    \/ AdapterCall
    \/ Summarize
    \/ Return
    \/ BatchSeqStep
    \/ BatchSeqReturn
    \/ BatchAsyncCreateTask
    \/ BatchAsyncJoin

Spec == Init /\ [][Next]_vars

\* main.py, lines 200-201: a fresh DocumentProcessor is handed the file of
\* the chat message.
InitFile ==
    /\ entry = "file"
    /\ config \in Configs
    /\ file \in Files
    /\ filename = <<>>
    /\ file_bytes = <<>>
    /\ file_mime = ""
    /\ pc = "Caller"
    /\ file_data = <<>>
    /\ bpc = "idle"
    /\ InitRun

NextFile ==
    \/ ReadFile
    \/ Validate
    \/ Dispatch
    \/ ExtractPdf
    \/ ExtractDocx
    \/ ExtractTxt
    \/ VisionCall
    \/ ExtractImage
    \/ AdapterCall
    \/ Summarize
    \/ Return

SpecFile == InitFile /\ [][NextFile]_vars

\* Bytes of text files: ASCII, the Latin-1 byte of an accented letter, and
\* the two bytes that encode the same letter in UTF-8.
TxtOctets == {32, 97, 233, 195, 169}

TxtByteSeqs == SeqsUpTo(TxtOctets, MaxFileSize + 1)

TxtNames == {<<"a">> \o ExtTxt, <<"a", ".", "T", "X", "T">>}

\* process_document_async called on a plain-text file.
InitTxt ==
    /\ entry = "single"
    /\ config \in Configs
    /\ filename \in TxtNames
    /\ file_bytes \in TxtByteSeqs
    /\ file_mime \in Mimes
    /\ pc = "Received"
    /\ file_data = <<>>
    /\ bpc = "idle"
    /\ file = NoFile
    /\ InitRun

NextTxt ==
    \/ Validate
    \/ Dispatch
    \/ ExtractTxt
    \/ AdapterCall
    \/ Summarize
    \/ Return

SpecTxt == InitTxt /\ [][NextTxt]_vars

\* Files the pipeline is called on twice.
TwiceNames ==
    {<<"a">> \o ExtTxt, <<"a">> \o ExtPdf, <<"a">> \o ExtDocx,
     <<"a">> \o ExtPng, <<"a">> \o ExtExe}

TwiceBytes == {<<>>, <<32>>, <<97>>, <<233, 97>>}

InitTwice ==
    /\ entry = "single"
    /\ config \in Configs
    /\ filename \in TwiceNames
    /\ file_bytes \in TwiceBytes
    /\ file_mime \in Mimes
    /\ pc = "Received"
    /\ file_data = <<>>
    /\ bpc = "idle"
    /\ file = NoFile
    /\ InitRun

NextTwice ==
    \/ Validate
    \/ Dispatch
    \/ ExtractPdf
    \/ ExtractDocx
    \/ ExtractTxt
    \/ VisionCall
    \/ ExtractImage
    \/ AdapterCall
    \/ Summarize
    \/ Return
    \/ CallAgain

SpecTwice == InitTwice /\ [][NextTwice]_vars

\* ----------------------------------------------------------------- claims

\* The lowercase suffix of the run's filename.
DeclaredExt == Lower(PathSuffix(filename))

\* The content-type set the configuration holds for the run's extension.
ConfiguredMimes ==
    IF DeclaredExt \in DOMAIN config.allowed_mime_types
    THEN config.allowed_mime_types[DeclaredExt]
    ELSE {}

\* _validate_file has run on the file of this run.
ValidationRan ==
    /\ entry = "single"
    /\ pc # "Received"
    /\ filename # <<>>
    /\ file_bytes # <<>>

\* The filename contains '..' or starts with '/'.
NameIsUnsafe ==
    \/ \E i \in 1..(Len(filename) - 1) : <<filename[i], filename[i + 1]>> = <<".", ".">>
    \/ (Len(filename) > 0 /\ Head(filename) = "/")

\* The extension check and the content-type check let the file through.
PassesExtensionAndMime ==
    /\ DeclaredExt \in config.allowed_extensions
    /\ (ConfiguredMimes = {} \/ file_mime \in ConfiguredMimes)

AllWhitespace(t) == \A i \in 1..Len(t) : t[i] \in Whitespace

\* The positions of the calls made to the given model.
CallsTo(model) == {i \in 1..Len(calls) : calls[i].model = model}

\* The adapter has returned for this run.
AdapterReturned ==
    /\ entry = "single"
    /\ pc \in {"NoContent", "Summarized", "Fallback", "Done"}

\* The filenames of the batch mapping.
BatchKeys == {file_data[i].filename : i \in 1..Len(file_data)}

\* Whatever content-type is declared, the pipeline raises for this file.
AlwaysFails(name, bytes) ==
    \/ name = <<>>
    \/ bytes = <<>>
    \/ \A m \in Mimes : ValidateFile(config, name, bytes, m) # "ok"

\* A plain-text file that passes validation under some declared
\* content-type: decoding never fails and the adapter never raises.
NeverFails(name, bytes) ==
    /\ ~AlwaysFails(name, bytes)
    /\ Lower(PathSuffix(name)) = ExtTxt

\* C1: when batch_process_documents returns, the map has exactly one entry
\* per input filename; the value of a file whose processing fails is an error
\* string, and the value of a file that does not fail is its resolved output
\* text, never an unawaited computation.
C1_SequentialBatchIsolatesFailures ==
    (entry = "batch" /\ bpc = "returned") =>
        /\ DOMAIN results = BatchKeys
        /\ \A i \in 1..Len(file_data) :
              LET f == file_data[i]
                  v == results[f.filename]
              IN  /\ v.kind # "coroutine"
                  /\ AlwaysFails(f.filename, f.file_bytes) => v.kind = "error"
                  /\ NeverFails(f.filename, f.file_bytes) => v.kind = "text"

\* C2: batch_process_documents_async never fails because of a file: once it
\* has left its loops it has returned a map with one entry per input
\* filename, an error string for each failing file and the output of every
\* other file.
C2_ConcurrentBatchJoinsAll ==
    (entry = "batch_async" /\ bpc # "loop") =>
        /\ bpc = "returned"
        /\ DOMAIN results = BatchKeys
        /\ \A i \in 1..Len(file_data) :
              LET f == file_data[i]
                  v == results[f.filename]
              IN  /\ AlwaysFails(f.filename, f.file_bytes) => v.kind = "error"
                  /\ NeverFails(f.filename, f.file_bytes) => v.kind = "text"

\* The summarization call of this run failed.
SummarizationFailed ==
    /\ entry = "single"
    /\ \E i \in CallsTo("text") : ~calls[i].ok

\* C3: when the summarization call fails for a non-blank text, nothing is
\* raised; the adapter's result is the 'Original content' header followed by
\* the first N characters of the text it was given, N the configured
\* extraction limit, and the service was called exactly once for that text.
C3_FallbackOnSummarizationFailure ==
    SummarizationFailed =>
        LET n == IF Len(text) < config.text_extract_limit
                 THEN Len(text)
                 ELSE config.text_extract_limit
        IN  /\ err = "none"
            /\ outcome # "raised"
            /\ Len(result) = n + 1
            /\ result[1] = "Original content:\n\n"
            /\ \A i \in 1..n : result[i + 1] = text[i]
            /\ Cardinality(CallsTo("text")) = 1
            /\ awaiting = "none"
            /\ ~AllWhitespace(text)

\* C3 witness: a finished run whose summarization call failed on a text
\* longer than the limit, so that the fallback cut it.
C3_Witness ==
    /\ SummarizationFailed
    /\ pc = "Done"
    /\ Len(text) > config.text_extract_limit

\* The vision call of this run failed.
VisionFailed ==
    /\ entry = "single"
    /\ \E i \in CallsTo("vision") : ~calls[i].ok

\* C4 as stated: when the vision call made for an image file fails, the
\* failure is not raised to the caller and the run goes on to return a
\* degraded result.
C4_VisionFailureDegrades ==
    VisionFailed => (err = "none" /\ outcome # "raised")

\* C4 amended: when the vision call made for an image file fails, the run
\* raises the extraction error made from the error signal; no result is
\* returned, and no other service call is made.
C4_VisionFailureIsRaised ==
    VisionFailed =>
        /\ pc = "Failed"
        /\ outcome = "raised"
        /\ err = "ExtractionFailed"
        /\ result = <<>>
        /\ Len(calls) = 1
        /\ awaiting = "none"

\* C4 witness: an image file that passed validation and whose vision call
\* failed.
C4_Witness ==
    /\ VisionFailed
    /\ processor = "image"
    /\ file_bytes # <<>>

\* C5: a file whose lowercase suffix is not an allowed extension is never
\* handed to an extractor and causes no service call; validation, when it
\* runs, fails with the unsupported-extension error.
C5_UnsupportedExtensionRejected ==
    (entry = "single" /\ DeclaredExt \notin config.allowed_extensions) =>
        /\ processor = "none"
        /\ calls = <<>>
        /\ awaiting = "none"
        /\ pc \in {"Received", "Rejected"}
        /\ ValidationRan => err = "UnsupportedExtension"

\* C5 witness: validation has rejected a file for its extension.
C5_Witness ==
    /\ ValidationRan
    /\ DeclaredExt \notin config.allowed_extensions
    /\ pc = "Rejected"
    /\ err = "UnsupportedExtension"

\* C6 as stated: a file whose extension has a non-empty configured
\* content-type set that does not hold the declared content-type fails
\* validation with the content-type-mismatch error.
C6_MismatchForEveryExtension ==
    (ValidationRan /\ ConfiguredMimes # {} /\ file_mime \notin ConfiguredMimes) =>
        (pc = "Rejected" /\ err = "ContentTypeMismatch")

\* C6 amended: a file whose extension is allowed and has a non-empty
\* configured content-type set that does not hold the declared content-type
\* fails validation with the content-type-mismatch error; when the set for
\* the extension is empty or absent the declared content-type is not checked.
C6_MismatchForAllowedExtension ==
    ValidationRan =>
        /\ (/\ DeclaredExt \in config.allowed_extensions
            /\ ConfiguredMimes # {}
            /\ file_mime \notin ConfiguredMimes)
                => (pc = "Rejected" /\ err = "ContentTypeMismatch")
        /\ ConfiguredMimes = {} => err # "ContentTypeMismatch"

\* C6 witness: validation has rejected an allowed extension for its declared
\* content-type.
C6_Witness ==
    /\ ValidationRan
    /\ DeclaredExt \in config.allowed_extensions
    /\ file_mime \notin ConfiguredMimes
    /\ err = "ContentTypeMismatch"

\* C7 as stated: every file longer than the configured maximum fails
\* validation with the file-too-large error, and a file of exactly the
\* maximum length is not rejected for its size.
C7_TooLargeForEveryFile ==
    ValidationRan =>
        /\ Len(file_bytes) > config.max_file_size
              => (pc = "Rejected" /\ err = "FileTooLarge")
        /\ Len(file_bytes) = config.max_file_size => err # "FileTooLarge"

\* C7 amended: every file that passes the extension and content-type checks
\* and is longer than the configured maximum fails validation with the
\* file-too-large error; a file of exactly the maximum length is not
\* rejected for its size.
C7_TooLargeAfterEarlierChecks ==
    ValidationRan =>
        /\ (PassesExtensionAndMime /\ Len(file_bytes) > config.max_file_size)
              => (pc = "Rejected" /\ err = "FileTooLarge")
        /\ Len(file_bytes) <= config.max_file_size => err # "FileTooLarge"
        /\ (/\ PassesExtensionAndMime
            /\ Len(file_bytes) = config.max_file_size
            /\ ~NameIsUnsafe) => pc # "Rejected"

\* C7 witness: a file one byte over the maximum has been rejected for its
\* size.
C7_Witness ==
    /\ ValidationRan
    /\ Len(file_bytes) = config.max_file_size + 1
    /\ err = "FileTooLarge"

\* C8 as stated: every filename that contains '..' or starts with '/' fails
\* validation with the unsafe-filename error, whatever the extension, the
\* declared content-type and the size.
C8_UnsafeNameWhateverElse ==
    (ValidationRan /\ NameIsUnsafe) => (pc = "Rejected" /\ err = "UnsafeFilename")

\* C8 amended: every filename that contains '..' or starts with '/' fails
\* validation: with the unsafe-filename error when the extension, the
\* content-type and the size pass their checks, and otherwise with the error
\* of the first of those checks that fails.
C8_UnsafeNameAlwaysRejected ==
    (ValidationRan /\ NameIsUnsafe) =>
        /\ pc = "Rejected"
        /\ processor = "none"
        /\ calls = <<>>
        /\ awaiting = "none"
        /\ err = (IF DeclaredExt \notin config.allowed_extensions
                  THEN "UnsupportedExtension"
                  ELSE IF ConfiguredMimes # {} /\ file_mime \notin ConfiguredMimes
                  THEN "ContentTypeMismatch"
                  ELSE IF Len(file_bytes) > config.max_file_size
                  THEN "FileTooLarge"
                  ELSE "UnsafeFilename")

\* C8 witness: a filename starting with '/' has been rejected as unsafe.
C8_Witness ==
    /\ ValidationRan
    /\ Len(filename) > 0
    /\ Head(filename) = "/"
    /\ err = "UnsafeFilename"

\* C9 as stated: whenever the text handed to the adapter is empty or
\* whitespace-only, the result is the fixed message and no service call was
\* attempted for the file.
C9_BlankTextNoCallAtAll ==
    (AdapterReturned /\ AllWhitespace(text)) =>
        /\ result = <<"No extractable text content found.">>
        /\ calls = <<>>
        /\ awaiting = "none"

\* C9 amended: whenever the text handed to the adapter is empty or
\* whitespace-only, the result is the fixed message and the adapter made no
\* summarization call; for a PDF, DOCX or plain-text file no service call was
\* attempted at all, and for an image file exactly the one vision call that
\* produced the text.
C9_BlankTextNoSummarizationCall ==
    (AdapterReturned /\ AllWhitespace(text)) =>
        /\ result = <<"No extractable text content found.">>
        /\ CallsTo("text") = {}
        /\ processor # "image" => (calls = <<>> /\ awaiting = "none")
        /\ processor = "image" =>
              /\ calls = <<[model |-> "vision", ok |-> TRUE]>>
              /\ awaiting = "none"

\* C9 witness: a plain-text file of white space only has been answered.
C9_Witness ==
    /\ AdapterReturned
    /\ processor = "txt"
    /\ text # <<>>
    /\ AllWhitespace(text)
    /\ pc = "Done"

\* The transitions of the state machine as stated.
StatedTransitions ==
    {<<"Received", "Validated">>, <<"Received", "Rejected">>,
     <<"Validated", "Dispatched">>, <<"Dispatched", "Extracted">>,
     <<"Extracted", "Summarized">>, <<"Extracted", "Fallback">>,
     <<"Summarized", "Done">>, <<"Fallback", "Done">>}

\* The transitions the orchestrator takes besides: the adapter's answer to a
\* blank text, and a failure after validation (no extractor registered for
\* the extension, or the extractor raising).
FurtherTransitions ==
    {<<"Extracted", "NoContent">>, <<"NoContent", "Done">>,
     <<"Validated", "Failed">>, <<"Dispatched", "Failed">>}

\* No extractor and no service call before validation has succeeded.
NothingBeforeValidation ==
    (entry = "single" /\ pc \in {"Received", "Rejected"}) =>
        (processor = "none" /\ (calls = <<>> /\ awaiting = "none"))

\* While the coroutine waits for a service to answer, the run stays in the
\* state it is in: such a step is no transition.

\* C10 as stated: every run follows only Received -> Validated -> Dispatched
\* -> Extracted -> (Summarized | Fallback) -> Done or Received -> Rejected;
\* nothing is dispatched or called before validation has succeeded, and a
\* run that has ended is in Done or Rejected.
C10_StatedStateMachine ==
    /\ [][entry = "single" =>
            (pc' = pc \/ <<pc, pc'>> \in StatedTransitions)]_vars
    /\ [](NothingBeforeValidation)
    /\ []((entry = "single" /\ outcome # "running") => pc \in {"Done", "Rejected"})

\* C10 amended: every run follows only the stated transitions, Extracted ->
\* NoContent -> Done for a blank text, and Validated -> Failed or Dispatched
\* -> Failed when no extractor is registered or the extractor fails; nothing
\* is dispatched or called before validation has succeeded, a rejected or
\* failed run takes no further step, and a run that has ended is in Done,
\* Rejected or Failed, having returned in Done and raised in the other two.
C10_StateMachine ==
    /\ [][entry = "single" =>
            (pc' = pc \/ <<pc, pc'>> \in StatedTransitions \cup FurtherTransitions)]_vars
    /\ [](NothingBeforeValidation)
    /\ [](entry = "single" =>
            /\ (outcome = "returned") = (pc = "Done")
            /\ (outcome = "raised") = (pc \in {"Rejected", "Failed"})
            /\ (outcome = "running") =
                  (pc \in {"Received", "Validated", "Dispatched", "Extracted",
                           "NoContent", "Summarized", "Fallback"}))

\* C10 witness: a run that raised after validation, its extractor failing.
C10_Witness ==
    /\ entry = "single"
    /\ pc = "Failed"
    /\ processor # "none"
    /\ err = "ExtractionFailed"

\* C11: process_document_async fails with the invalid-input error, before
\* any validation or extraction, whenever the filename is empty or the byte
\* content is empty: once such a call has left Received it is in Rejected
\* with InvalidInput (never with a validation error, whatever the name, the
\* declared type or the configuration), no extractor was selected, nothing
\* was extracted and no service call was made.
C11_InvalidInputBeforeValidation ==
    (entry = "single" /\ (filename = <<>> \/ file_bytes = <<>>)
        /\ pc # "Received") =>
        /\ pc = "Rejected"
        /\ err = "InvalidInput"
        /\ outcome = "raised"
        /\ processor = "none"
        /\ extracted = <<>>
        /\ calls = <<>>
        /\ awaiting = "none"

\* C11 witness: empty bytes under a name that validation would have refused
\* for its extension; the call was rejected for its input.
C11_Witness ==
    /\ entry = "single"
    /\ file_bytes = <<>>
    /\ filename # <<>>
    /\ ExtensionUnsupported(config, FileExtension(filename))
    /\ pc = "Rejected"
    /\ err = "InvalidInput"

\* The file object has a path that is a non-empty string.
HasUsablePath == file.has_path /\ file.path # <<>>

\* process_document_async was called for this file.
PipelineEntered == pc # "Caller" /\ pc # "Unavailable"

\* The call left process_single_file_async without entering the pipeline.
PipelineNotEntered ==
    /\ pc = "Unavailable"
    /\ outcome = "raised"
    /\ file_bytes = <<>>
    /\ processor = "none"
    /\ extracted = <<>>
    /\ result = <<>>
    /\ calls = <<>>
    /\ awaiting = "none"

\* C12: at the caller boundary a file object with inline byte content is
\* read from that content, whether or not it also has a path; one without
\* inline content is read from its path when the path is a non-empty string
\* (and the call raises without entering the pipeline when that file cannot
\* be opened); one with neither fails with the content-unavailable error and
\* the pipeline is not entered. The pipeline is entered with the file's name
\* and declared type.
C12_CallerBoundary ==
    (entry = "file" /\ pc # "Caller" /\ ~file.is_none) =>
        /\ file.has_content =>
              /\ PipelineEntered
              /\ file_bytes = file.content
        /\ (~file.has_content /\ HasUsablePath /\ file.on_disk) =>
              /\ PipelineEntered
              /\ file_bytes = file.disk
        /\ (~file.has_content /\ HasUsablePath /\ ~file.on_disk) =>
              /\ PipelineNotEntered
              /\ err = "FileNotFound"
        /\ (~file.has_content /\ ~HasUsablePath) =>
              /\ PipelineNotEntered
              /\ err = "ContentUnavailable"
        /\ PipelineEntered =>
              /\ filename = file.name
              /\ file_mime = file.mime
              /\ err # "ContentUnavailable"

\* C12 witness: a file with inline content and a path under which other
\* bytes are stored; the pipeline ran to its end on the inline content.
C12_Witness ==
    /\ entry = "file"
    /\ file.has_content
    /\ HasUsablePath
    /\ file.on_disk
    /\ file.disk # file.content
    /\ file_bytes = file.content
    /\ pc = "Done"

\* The plain-text extractor has run on the bytes of this file.
TxtWasRead ==
    /\ processor = "txt"
    /\ pc \in {"Extracted", "NoContent", "Summarized", "Fallback", "Done", "Failed"}

\* C17: for every byte sequence the decoded text is the UTF-8 decoding when
\* the bytes are valid UTF-8 and the Latin-1 decoding, one character per
\* byte, otherwise; Latin-1 decodes every byte sequence, so the encodings
\* after it and the permissive decoding with a placeholder are never
\* reached. ASCII bytes decode to the same characters, the two UTF-8 bytes
\* of an accented letter to that one letter, and decoding never fails: the
\* extractor raises nothing.
C17_FirstEncodingThatDecodes ==
    TxtWasRead =>
        /\ pc # "Failed"
        /\ err = "none"
        /\ Utf8Valid(file_bytes) => extracted = Utf8Decode(file_bytes)
        /\ ~Utf8Valid(file_bytes) =>
              /\ Len(extracted) = Len(file_bytes)
              /\ \A i \in 1..Len(file_bytes) : extracted[i] = Chr(file_bytes[i])
        /\ (\A i \in 1..Len(file_bytes) : file_bytes[i] < 128) =>
              /\ Len(extracted) = Len(file_bytes)
              /\ \A i \in 1..Len(file_bytes) : extracted[i] = Chr(file_bytes[i])
        /\ file_bytes = <<195, 169>> => extracted = <<Chr(233)>>
        /\ file_bytes = <<233>> => extracted = <<Chr(233)>>
        /\ file_bytes = <<169, 195>> => extracted = <<Chr(169), Chr(195)>>
        /\ \E k \in 1..4 : Decodes(Encodings[k], file_bytes)

\* C17 witness: bytes that are valid UTF-8 with a two-byte character, which
\* Latin-1 would have decoded to two characters; the text has one.
C17_Witness ==
    /\ TxtWasRead
    /\ Utf8Valid(file_bytes)
    /\ \E i \in 1..Len(file_bytes) : file_bytes[i] >= 128
    /\ Len(extracted) < Len(file_bytes)
    /\ pc = "Done"

\* The document library could not open the bytes of this file.
LibraryFailed == library.read /\ ~library.ok

\* The result is degraded output: the fallback header and what follows it.
DegradedResult == result # <<>> /\ result[1] = FallbackHeader[1]

\* C13: an extractor that fails on malformed input never returns a normal or
\* degraded result for that file: the run is in Failed, the extraction error
\* is raised to the caller, there is no result and the adapter was never
\* called; and degraded output exists only where a summarization call
\* failed.
C13_ExtractorFailurePropagated ==
    /\ LibraryFailed =>
          /\ pc = "Failed"
          /\ err = "ExtractionFailed"
          /\ outcome = "raised"
          /\ result = <<>>
          /\ calls = <<>>
          /\ awaiting = "none"
    /\ (pc = "Fallback" \/ DegradedResult) =>
          /\ SummarizationFailed
          /\ ~LibraryFailed
          /\ ~VisionFailed
          /\ err = "none"

\* C13 witness: a DOCX file the library could not open; the run has raised.
C13_Witness ==
    /\ entry = "single"
    /\ processor = "docx"
    /\ LibraryFailed
    /\ pc = "Failed"
    /\ outcome = "raised"

\* Both calls have ended.
BothCallsEnded == run = 2 /\ first.ended /\ outcome # "running"

\* Every call of the log to the service, text or vision model, failed.
ServiceFailing(log) == \A i \in 1..Len(log) : ~log[i].ok

\* The service was called, and every call to it failed.
ServiceCalledAndFailed(log) == log # <<>> /\ ServiceFailing(log)

\* The text call of the log was made and failed, the vision call before it
\* having answered.
OnlyTextCallFailed(log) ==
    /\ Len(log) = 2
    /\ log[1] = [model |-> "vision", ok |-> TRUE]
    /\ log[2] = [model |-> "text", ok |-> FALSE]

\* The fallback output made of the text t: the header and the first N
\* characters of t, N the configured limit.
FallbackOf(t) ==
    FallbackHeader
        \o SubSeq(t, 1, IF Len(t) < config.text_extract_limit
                        THEN Len(t) ELSE config.text_extract_limit)

\* What the extractor of this run makes of the bytes and of the document the
\* library read from them: the text it hands to the adapter.
HandedFromInputs ==
    LET N == config.text_extract_limit
        cut(t) == SubSeq(t, 1, IF Len(t) < N THEN Len(t) ELSE N)
    IN  IF processor = "txt"
        THEN cut(IF Utf8Valid(file_bytes) THEN Utf8Decode(file_bytes)
                 ELSE [i \in 1..Len(file_bytes) |-> Chr(file_bytes[i])])
        ELSE IF processor = "pdf"
        THEN cut(PdfText(library.doc, Len(library.doc)))
        ELSE Strip(cut(DocxText(library.doc)))

PageMark == <<"-", "-", "-", " ", "P", "a", "g", "e", " ">>

PageDelimiter(n) == PageMark \o Decimal(n) \o <<" ", "-", "-", "-">>

\* The positions of t at which the sequence d begins.
Occurrences(t, d) ==
    {i \in 1..Len(t) :
        i + Len(d) - 1 <= Len(t) /\ SubSeq(t, i, i + Len(d) - 1) = d}

\* The PDF extractor has read a document the library opened.
PdfWasRead == processor = "pdf" /\ library.read /\ library.ok

\* The pages of that document that have text.
PagesWithText == {k \in 1..Len(library.doc) : library.doc[k] # <<>>}

\* C15: the text extracted from a PDF, before truncation, contains exactly
\* one '--- Page N ---' delimiter for each page that has text, N the page's
\* 1-based position, the delimiters in page order, each followed by its
\* page's text, and no other delimiter: none for a page without text, none
\* numbered 0 or beyond the last page.
C15_PageDelimiters ==
    PdfWasRead =>
        /\ \A k \in PagesWithText :
              /\ Cardinality(Occurrences(extracted, PageDelimiter(k))) = 1
              /\ Cardinality(Occurrences(extracted,
                      PageDelimiter(k) \o <<"\n">> \o library.doc[k])) = 1
        /\ \A n \in 0..(Len(library.doc) + 1) :
              n \notin PagesWithText =>
                  Occurrences(extracted, PageDelimiter(n)) = {}
        /\ Cardinality(Occurrences(extracted, PageMark))
              = Cardinality(PagesWithText)
        /\ \A j, k \in PagesWithText :
              j < k =>
                  \A p \in Occurrences(extracted, PageDelimiter(j)),
                     q \in Occurrences(extracted, PageDelimiter(k)) : p < q

\* C15 witness: a PDF whose first page has no text and whose last page has;
\* the extracted text carries the delimiter of the last page only.
C15_Witness ==
    /\ PdfWasRead
    /\ Len(library.doc) >= 2
    /\ library.doc[1] = <<>>
    /\ library.doc[Len(library.doc)] # <<>>
    /\ Occurrences(extracted, PageDelimiter(Len(library.doc))) # {}
    /\ pc = "Extracted"

\* The DOCX extractor has read a document the library opened.
DocxWasRead == processor = "docx" /\ library.read /\ library.ok

\* The non-empty texts of a sequence of texts, in order.
NonEmpty(texts) == SelectSeq(texts, LAMBDA t : t # <<>>)

\* The texts joined by ' | '.
RECURSIVE JoinedByBar(_)
JoinedByBar(texts) ==
    IF texts = <<>> THEN <<>>
    ELSE IF Len(texts) = 1 THEN texts[1]
    ELSE texts[1] \o <<" ", "|", " ">> \o JoinedByBar(Tail(texts))

\* Each text on a line of its own.
RECURSIVE OnePerLine(_)
OnePerLine(texts) ==
    IF texts = <<>> THEN <<>>
    ELSE texts[1] \o <<"\n">> \o OnePerLine(Tail(texts))

\* The rows of all the tables, in source order.
RECURSIVE AllRows(_)
AllRows(ts) == IF ts = <<>> THEN <<>> ELSE ts[1] \o AllRows(Tail(ts))

\* A row rendered from the given cell texts.
RenderedRow(cells) ==
    <<"T", "a", "b", "l", "e", " ", "r", "o", "w", ":", " ">>
        \o JoinedByBar(cells)

\* The rows that have a non-empty cell.
RowsWithText(rows) ==
    SelectSeq(rows, LAMBDA r : \E i \in 1..Len(r) : r[i] # <<>>)

\* C16 as stated: the DOCX text is the non-empty paragraph texts in source
\* order, one per line, followed by every table row rendered as 'Table row: '
\* plus the row's cell texts joined by ' | '.
C16_EveryRowAllCells ==
    DocxWasRead =>
        LET rows == AllRows(library.doc.tables)
        IN  extracted =
                OnePerLine(NonEmpty(library.doc.paragraphs))
                    \o OnePerLine([i \in 1..Len(rows) |-> RenderedRow(rows[i])])

\* C16 amended: the DOCX text is the non-empty paragraph texts in source
\* order, one per line, followed by every table row that has a non-empty
\* cell, in source order, rendered as 'Table row: ' plus the row's non-empty
\* cell texts joined by ' | ', one row per line; a row whose cells are all
\* empty is left out.
C16_RowsOfNonEmptyCells ==
    DocxWasRead =>
        LET rows == RowsWithText(AllRows(library.doc.tables))
        IN  extracted =
                OnePerLine(NonEmpty(library.doc.paragraphs))
                    \o OnePerLine([i \in 1..Len(rows) |->
                                       RenderedRow(NonEmpty(rows[i]))])

\* C16 witness: a document with a paragraph and a table that has a row with
\* an empty cell beside a filled one and a row of empty cells only.
C16_Witness ==
    /\ DocxWasRead
    /\ NonEmpty(library.doc.paragraphs) # <<>>
    /\ \E i \in 1..Len(AllRows(library.doc.tables)) :
          LET r == AllRows(library.doc.tables)[i]
          IN  r # NonEmpty(r) /\ NonEmpty(r) # <<>>
    /\ \E i \in 1..Len(AllRows(library.doc.tables)) :
          NonEmpty(AllRows(library.doc.tables)[i]) = <<>>
    /\ pc = "Extracted"

\* The vision call made for this image file has succeeded.
VisionSucceeded ==
    /\ processor = "image"
    /\ calls # <<>>
    /\ calls[1] = [model |-> "vision", ok |-> TRUE]

\* C18 as stated: for an image file whose vision call succeeds, exactly one
\* external service call is made and the result of the pipeline is the
\* content of the vision response, verbatim.
C18_VisionContentVerbatim ==
    (entry = "single" /\ VisionSucceeded /\ pc = "Done") =>
        /\ Len(calls) = 1
        /\ awaiting = "none"
        /\ result = extracted

\* C18 amended: for an image file the first service call is the vision
\* call, with no extraction step before it; when it succeeds its content is
\* handed whole to the summarization adapter, which returns the no-content
\* message without a further call when the content is blank, and otherwise
\* makes one text-summarization call, two calls in all, the result being
\* that call's response when it succeeds and the fallback header plus the
\* first N characters of the vision content when it fails.
C18_VisionContentSummarized ==
    /\ (entry = "single" /\ processor = "image" /\ calls # <<>>) =>
          /\ calls[1].model = "vision"
          /\ Cardinality(CallsTo("vision")) = 1
    /\ (entry = "single" /\ VisionSucceeded) =>
          /\ text = extracted
          /\ pc \in {"NoContent", "Summarized", "Fallback", "Done"} =>
                IF AllWhitespace(extracted)
                THEN /\ (Len(calls) = 1 /\ awaiting = "none")
                     /\ result = NoContentMessage
                ELSE /\ (Len(calls) = 2 /\ awaiting = "none")
                     /\ calls[2].model = "text"
                     /\ calls[2].ok => result \in Responses
                     /\ ~calls[2].ok =>
                            result = FallbackHeader
                               \o SubSeq(extracted, 1,
                                     Min(Len(extracted), config.text_extract_limit))

\* C18 witness: an image whose vision content, longer than the extraction
\* limit, went through a second, text-summarization call before the
\* pipeline returned.
C18_Witness ==
    /\ entry = "single"
    /\ VisionSucceeded
    /\ Len(extracted) > config.text_extract_limit
    /\ calls = <<[model |-> "vision", ok |-> TRUE], [model |-> "text", ok |-> TRUE]>>
    /\ pc = "Done"

\* An extractor has handed its text to the summarization adapter.
TextHanded ==
    /\ entry = "single"
    /\ pc \in {"Extracted", "NoContent", "Summarized", "Fallback", "Done"}

\* The first n characters of t.
FirstChars(t, n) == SubSeq(t, 1, IF Len(t) < n THEN Len(t) ELSE n)

\* s is t without the whitespace at its two ends.
IsStripped(s, t) ==
    /\ \E i, j \in 0..Len(t) :
          /\ i + j <= Len(t)
          /\ s = SubSeq(t, i + 1, Len(t) - j)
          /\ \A k \in 1..i : t[k] \in Whitespace
          /\ \A k \in (Len(t) - j + 1)..Len(t) : t[k] \in Whitespace
    /\ s # <<>> => (s[1] \notin Whitespace /\ s[Len(s)] \notin Whitespace)

\* C19 as stated: in every run and for every supported format, the text
\* handed to the summarization adapter is a prefix of the extracted text, of
\* length at most the configured character limit.
C19_HandedTextIsBoundedPrefix ==
    TextHanded =>
        /\ Len(text) <= config.text_extract_limit
        /\ Len(text) <= Len(extracted)
        /\ text = SubSeq(extracted, 1, Len(text))

\* C19 amended: the text handed to the summarization adapter is, for PDF
\* and plain text, the first N characters of the extracted text, N the
\* configured limit; for DOCX, those first N characters with the whitespace
\* at both ends removed, at most N characters but not always a prefix; for
\* an image, the whole vision content, whatever its length. In every format
\* the body of a fallback output is the first N characters of the handed
\* text.
C19_TruncationByFormat ==
    /\ TextHanded =>
          LET N == config.text_extract_limit
          IN  /\ processor \in {"pdf", "txt"} =>
                    text = FirstChars(extracted, N)
              /\ processor = "docx" =>
                    /\ IsStripped(text, FirstChars(extracted, N))
                    /\ Len(text) <= N
              /\ processor = "image" => text = extracted
    /\ (entry = "single" /\ (pc = "Fallback" \/ DegradedResult)) =>
          /\ result = FallbackHeader \o FirstChars(text, config.text_extract_limit)
          /\ Len(result) - Len(FallbackHeader) <= config.text_extract_limit

\* C19 witness: a DOCX whose text begins with whitespace; what was handed to
\* the adapter is not a prefix of the extracted text.
C19_Witness ==
    /\ TextHanded
    /\ processor = "docx"
    /\ text # <<>>
    /\ text # SubSeq(extracted, 1, Len(text))
    /\ Len(extracted) > config.text_extract_limit

====
